---- MODULE Spec2Model ----
(***************************************************************************)
(* Model of the authentication server actions of lib/actions/auth.action.ts *)
(* (src/unnamed/part_001, lines 182-463): setSessionCookie, signUp, signIn, *)
(* signInOrSignUpWithProvider, signOut, getCurrentUser, isAuthenticated.    *)
(*                                                                         *)
(* Each browser (Client) runs one request at a time against the shared      *)
(* Firestore "users" collection; requests of different clients interleave   *)
(* at the awaits on the identity platform and on the document store.        *)
(*                                                                         *)
(* The last part models the browser-side flows that call these actions:     *)
(* AuthForm.onSubmit (src/unnamed/part_001, lines 55-117) and               *)
(* handleGoogleSignIn (src/components/auth/GoogleLoginButton.tsx).          *)
(***************************************************************************)
EXTENDS Naturals, Sequences, FiniteSets, TLC

VARIABLES users, cookieStore, clock, pc, req, nreq, ui, accounts

vars == <<users, cookieStore, clock, pc, req, nreq, ui, accounts>>

----------------------------------------------------------------------------
(* Bounds and input domains *)

MaxRequests == 2

Clients == {"c1", "c2"}
Uids == {"u1", "u2"}
Null == "null"
(* The person at each browser: the name, email and photo the forms submit *)
Profile(c) ==
    IF c = "c1" THEN [name |-> "Ann", email |-> "ann@x.com", profileURL |-> Null]
    ELSE [name |-> "Bob", email |-> "bob@x.com", profileURL |-> "http://p/1"]
BadToken == "bad-token"
IdTokens == {"idtoken:u1", "idtoken:u2", BadToken}
Forged == "forged"

----------------------------------------------------------------------------
(* The identity platform (firebase-admin auth), as the actions use it *)

TokenValid(idToken) == idToken # BadToken

TokenUid(idToken) == IF idToken = "idtoken:u1" THEN "u1" ELSE "u2"

SessionFor(uid) == "session:" \o uid

SessionGenuine(value) == \E u \in Uids : value = SessionFor(u)

SessionUid(value) == CHOOSE u \in Uids : value = SessionFor(u)

AuthError(code) == [code |-> code, message |-> "auth error"]

StoreError(code) == [code |-> code, message |-> "store error"]

VerifyIdTokenErrors == {AuthError("auth/id-token-expired"), AuthError("auth/argument-error")}

----------------------------------------------------------------------------
(* The request cookie store (next/headers cookies()): absent is <<>>,      *)
(* a "session" cookie with value v is <<v>>                                 *)

cookieGet(store) == IF Len(store) = 0 THEN "" ELSE store[1]

cookieHasNever(store) == FALSE

cookieHas(store) == Len(store) > 0

cookieSetDropped(store, value) == store

cookieSet(store, value) == <<value>>

cookieDeleteDropped(store) == store

cookieDelete(store) == <<>>

----------------------------------------------------------------------------
(* Firestore documents: a document is a record holding the fields written; *)
(* set replaces the document, update merges into the existing one           *)

TruthyButEmpty(v) == v # Null

Truthy(v) == v \notin {Null, ""}

Field(doc, f) == IF f \in DOMAIN doc THEN doc[f] ELSE Null

Merge(doc, patch) ==
    [f \in DOMAIN doc \cup DOMAIN patch |->
        IF f \in DOMAIN patch THEN patch[f] ELSE doc[f]]

DocSetLost(db, uid, doc) == db

DocSet(db, uid, doc) ==
    [u \in DOMAIN db \cup {uid} |-> IF u = uid THEN doc ELSE db[u]]

DocUpdate(db, uid, patch) ==
    [u \in DOMAIN db |-> IF u = uid THEN Merge(db[u], patch) ELSE db[u]]

DocGet(db, uid) ==
    IF uid \in DOMAIN db THEN [exists |-> TRUE, data |-> db[uid]]
    ELSE [exists |-> FALSE]

----------------------------------------------------------------------------
(* The documents and patches the actions write *)

signUpDocAsGoogle(name, email, now) ==
    [name |-> name, email |-> email, createdAt |-> now, provider |-> "google"]

signUpDoc(name, email, now) ==
    [name |-> name, email |-> email, createdAt |-> now, provider |-> "email"]

providerCreateDoc(name, email, profileURL, now) ==
    [name |-> name, email |-> email,
     profileURL |-> IF Truthy(profileURL) THEN profileURL ELSE Null,
     createdAt |-> now, provider |-> "google"]

providerUpdatePatchRestamps(userDoc, name, profileURL, now) ==
    [name |-> name, profileURL |-> profileURL, createdAt |-> now,
     lastLoginAt |-> now, provider |-> "google"]

providerUpdatePatchForgetsPhoto(userDoc, name, profileURL, now) ==
    [name |-> name, profileURL |-> profileURL, lastLoginAt |-> now,
     provider |-> IF Truthy(Field(userDoc.data, "provider"))
                  THEN userDoc.data.provider ELSE "google"]

providerUpdatePatch(userDoc, name, profileURL, now) ==
    [name |-> name,
     profileURL |-> IF Truthy(profileURL) THEN profileURL
                    ELSE IF Truthy(Field(userDoc.data, "profileURL"))
                         THEN userDoc.data.profileURL ELSE Null,
     lastLoginAt |-> now,
     provider |-> IF Truthy(Field(userDoc.data, "provider"))
                  THEN userDoc.data.provider ELSE "google"]

signInPatch(now) == [lastLoginAt |-> now]

----------------------------------------------------------------------------
(* What a call hands back to its caller *)

Void == [kind |-> "void"]

Thrown(message) == [kind |-> "thrown", message |-> message]

Success == [kind |-> "result", success |-> TRUE]

SuccessMsg(message) == [kind |-> "result", success |-> TRUE, message |-> message]

Failure(message) == [kind |-> "result", success |-> FALSE, message |-> message]

NoUser == [kind |-> "null"]

UserOf(uid, data) == [kind |-> "user", user |-> Merge([id |-> uid], data)]

Bool(value) == [kind |-> "bool", value |-> value]

SessionCookieError == [code |-> "", message |-> "Failed to set session cookie."]

AccountExists == "An account with this email already exists. Please sign in."

signUpFailure(error) == Failure("Failed to create account record. " \o error.message)

signInFailureSwallowed(error) == Success

signInFailure(error) ==
    IF error.code \in {"auth/user-not-found", "auth/wrong-password", "auth/invalid-credential"}
    THEN Failure("Invalid email or password.")
    ELSE IF error.code \in {"auth/id-token-expired", "auth/session-cookie-expired"}
    THEN Failure("Session expired. Please sign in again.")
    ELSE Failure("Failed to log into account. "
                 \o (IF Truthy(error.message) THEN error.message ELSE "Unknown error"))

providerFailure(error) == Failure("Failed to sign in with provider. " \o error.message)

CaughtRethrown(op, error) == Thrown(error.message)

(* The value a request of kind op ends with when error is thrown inside its try *)
Caught(op, error) ==
    CASE op = "setSessionCookie" -> Thrown(SessionCookieError.message)
      [] op = "signUp" -> signUpFailure(error)
      [] op = "signIn" -> signInFailure(error)
      [] op = "signInOrSignUpWithProvider" -> providerFailure(error)

(* isAuthenticated returns !!user; getCurrentUser returns user *)
Resolved(op, user) ==
    IF op = "isAuthenticated" THEN Bool(user.kind = "user") ELSE user

----------------------------------------------------------------------------
(* Requests *)

NoCall == [op |-> ""]

Blank ==
    [op |-> "", uid |-> "", name |-> "", email |-> "", profileURL |-> Null,
     idToken |-> "", userDoc |-> [exists |-> FALSE], decodedUid |-> "",
     result |-> [kind |-> "none"], calls |-> <<>>, failed |-> {},
     branch |-> "", stamp |-> <<>>, cookie0 |-> <<>>, prev |-> NoCall]

(* What the next request of the same client remembers of request r: only a *)
(* provider sign-in whose record step was carried out is remembered         *)
Summary(r) ==
    IF r.op = "signInOrSignUpWithProvider" /\ r.branch # ""
    THEN [op |-> r.op, uid |-> r.uid, idToken |-> r.idToken,
          success |-> r.result.success, branch |-> r.branch, stamp |-> r.stamp]
    ELSE NoCall

(* The error a browser-side flow caught: none yet *)
NoError == [code |-> "", message |-> <<>>]

(* A page on which no submission has been made: the flow in progress, the  *)
(* await it is at, the button's isLoading, the toasts shown and the route  *)
(* pushed by the current submission, what the submission has obtained, the *)
(* calls it has made, the call that threw and the error it caught          *)
UIBlank ==
    [flow |-> "", at |-> "idle", isLoading |-> FALSE, toasts |-> <<>>, route |-> "",
     uid |-> "", idToken |-> "", calls |-> <<>>, failed |-> "", error |-> NoError,
     result |-> [kind |-> "none"], cookie0 |-> <<>>]

(* What a browser may hold before its first request: no session cookie, a  *)
(* session cookie with an empty value, or one the platform never issued.   *)
(* users starts empty; clock is the time new Date() reads, and it advances *)
(* each time a timestamp is stored.                                        *)
InitCookies == {<<>>, <<"">>, <<Forged>>}

Init ==
    /\ users = <<>>
    /\ \E v \in InitCookies : cookieStore = [c \in Clients |-> v]
    /\ clock = 1
    /\ pc = [c \in Clients |-> "idle"]
    /\ req = [c \in Clients |-> Blank]
    /\ nreq = 0
    /\ ui = [c \in Clients |-> UIBlank]
    /\ accounts = <<>>

(* A client whose previous request has returned starts request r: the      *)
(* action's synchronous prefix has run                                      *)
Invoke(c, r, label) ==
    /\ pc[c] \in {"idle", "done"}
    /\ nreq < MaxRequests
    /\ nreq' = nreq + 1
    /\ req' = [req EXCEPT ![c] = [r EXCEPT !.prev = Summary(req[c])]]
    /\ pc' = [pc EXCEPT ![c] = label]

(* The same, called directly: no page of the application is involved *)
Start(c, r, label) ==
    /\ Invoke(c, r, label)
    /\ UNCHANGED <<ui, accounts>>

(* The request goes on with locals r at label *)
Goto(c, r, label) ==
    /\ req' = [req EXCEPT ![c] = r]
    /\ pc' = [pc EXCEPT ![c] = label]
    /\ UNCHANGED <<nreq, ui, accounts>>

Range(seq) == {seq[i] : i \in 1..Len(seq)}

Called(r, call) == [r EXCEPT !.calls = Append(@, call)]

Failed(r, call) == [r EXCEPT !.calls = Append(@, call), !.failed = @ \cup {call}]

(* The request returns result: its locals are gone, what it was called     *)
(* with and what it did are kept                                            *)
Done(r, result) ==
    [Blank EXCEPT !.op = r.op, !.uid = r.uid, !.idToken = r.idToken,
                  !.result = result, !.calls = r.calls, !.failed = r.failed,
                  !.branch = r.branch, !.stamp = r.stamp, !.cookie0 = r.cookie0,
                  !.prev = r.prev]

----------------------------------------------------------------------------
(* setSessionCookie: entry of the exported function *)
setSessionCookie(c) ==
    \E idToken \in IdTokens :
        /\ Start(c, [Blank EXCEPT !.op = "setSessionCookie", !.idToken = idToken,
                                  !.cookie0 = cookieStore[c]], "session")
        /\ UNCHANGED <<users, cookieStore, clock>>

(* Where a request goes once the body of setSessionCookie has returned *)
AfterSession(c, r) ==
    CASE r.op = "setSessionCookie" -> Goto(c, Done(r, Void), "done")
      [] r.op = "signIn" -> Goto(c, r, "verifyIdToken")
      [] r.op = "signInOrSignUpWithProvider" -> Goto(c, Done(r, Success), "done")

(* The body of setSessionCookie: await auth.createSessionCookie, then      *)
(* cookieStore.set; anything thrown is rethrown as SessionCookieError      *)
SessionCookieBody(c) ==
    /\ pc[c] = "session"
    /\ UNCHANGED <<users, clock>>
    /\ \/ /\ TokenValid(req[c].idToken)
          /\ cookieStore' = [cookieStore EXCEPT
                                ![c] = cookieSet(@, SessionFor(TokenUid(req[c].idToken)))]
          /\ AfterSession(c, Called(Called(req[c], "createSessionCookie"), "cookies.set"))
       \/ /\ UNCHANGED cookieStore
          /\ Goto(c, Done(Failed(req[c], "createSessionCookie"),
                          Caught(req[c].op, SessionCookieError)), "done")
       \/ /\ TokenValid(req[c].idToken)
          /\ UNCHANGED cookieStore
          /\ Goto(c, Done(Failed(Called(req[c], "createSessionCookie"), "cookies.set"),
                          Caught(req[c].op, SessionCookieError)), "done")

----------------------------------------------------------------------------
(* signUp *)
signUp(c) ==
    \E uid \in Uids :
        /\ Start(c, [Blank EXCEPT !.op = "signUp", !.uid = uid, !.name = Profile(c).name,
                                  !.email = Profile(c).email, !.cookie0 = cookieStore[c]], "signUpGet")
        /\ UNCHANGED <<users, cookieStore, clock>>

(* await userRef.get(), then the exists check *)
SignUpGet(c) ==
    /\ pc[c] = "signUpGet"
    /\ UNCHANGED <<users, cookieStore, clock>>
    /\ LET r == [Called(req[c], "users.get") EXCEPT !.userDoc = DocGet(users, req[c].uid)]
       IN \/ /\ r.userDoc.exists
             /\ Goto(c, Done(r, Failure(AccountExists)), "done")
          \/ /\ ~r.userDoc.exists
             /\ Goto(c, r, "signUpSet")
          \/ Goto(c, Done(Failed(req[c], "users.get"),
                          signUpFailure(StoreError("unavailable"))), "done")

(* await userRef.set({...}) *)
SignUpSet(c) ==
    /\ pc[c] = "signUpSet"
    /\ UNCHANGED cookieStore
    /\ \/ /\ users' = DocSet(users, req[c].uid,
                             signUpDoc(req[c].name, req[c].email, clock))
          /\ clock' = clock + 1
          /\ Goto(c, Done([Called(req[c], "users.set") EXCEPT
                              !.branch = "create", !.stamp = <<clock>>],
                          SuccessMsg("Account created successfully. Please sign in.")),
                  "done")
       \/ /\ UNCHANGED <<users, clock>>
          /\ Goto(c, Done(Failed(req[c], "users.set"),
                          signUpFailure(StoreError("unavailable"))), "done")

----------------------------------------------------------------------------
(* signIn: begins with await setSessionCookie(idToken) *)
signIn(c) ==
    \E idToken \in IdTokens :
        /\ Start(c, [Blank EXCEPT !.op = "signIn", !.idToken = idToken,
                                  !.cookie0 = cookieStore[c]], "session")
        /\ UNCHANGED <<users, cookieStore, clock>>

(* await auth.verifyIdToken(idToken) *)
VerifyIdToken(c) ==
    /\ pc[c] = "verifyIdToken"
    /\ UNCHANGED <<users, cookieStore, clock>>
    /\ \/ /\ TokenValid(req[c].idToken)
          /\ Goto(c, [Called(req[c], "verifyIdToken") EXCEPT
                         !.decodedUid = TokenUid(req[c].idToken)], "signInUpdate")
       \/ \E error \in VerifyIdTokenErrors :
             Goto(c, Done(Failed(req[c], "verifyIdToken"), signInFailure(error)), "done")

(* await db.collection("users").doc(uid).update({lastLoginAt}) *)
SignInUpdate(c) ==
    /\ pc[c] = "signInUpdate"
    /\ UNCHANGED cookieStore
    /\ \/ /\ req[c].decodedUid \in DOMAIN users
          /\ clock' = clock + 1
          /\ users' = DocUpdate(users, req[c].decodedUid, signInPatch(clock))
          /\ Goto(c, Done([Called(req[c], "users.update") EXCEPT
                              !.branch = "update", !.stamp = <<clock>>], Success), "done")
       \/ /\ req[c].decodedUid \notin DOMAIN users
          /\ UNCHANGED <<users, clock>>
          /\ Goto(c, Done(Failed(req[c], "users.update"),
                          signInFailure(StoreError("not-found"))), "done")
       \/ /\ UNCHANGED <<users, clock>>
          /\ Goto(c, Done(Failed(req[c], "users.update"),
                          signInFailure(StoreError("unavailable"))), "done")

----------------------------------------------------------------------------
(* signInOrSignUpWithProvider *)
signInOrSignUpWithProvider(c) ==
    \E uid \in Uids, idToken \in IdTokens :
        /\ Start(c, [Blank EXCEPT !.op = "signInOrSignUpWithProvider", !.uid = uid,
                                  !.name = Profile(c).name, !.email = Profile(c).email,
                                  !.profileURL = Profile(c).profileURL, !.idToken = idToken,
                                  !.cookie0 = cookieStore[c]], "providerGet")
        /\ UNCHANGED <<users, cookieStore, clock>>

(* await userRef.get(), then the exists check *)
ProviderGet(c) ==
    /\ pc[c] = "providerGet"
    /\ UNCHANGED <<users, cookieStore, clock>>
    /\ LET r == [Called(req[c], "users.get") EXCEPT !.userDoc = DocGet(users, req[c].uid)]
       IN \/ /\ ~r.userDoc.exists
             /\ Goto(c, r, "providerSet")
          \/ /\ r.userDoc.exists
             /\ Goto(c, r, "providerUpdate")
          \/ Goto(c, Done(Failed(req[c], "users.get"),
                          providerFailure(StoreError("unavailable"))), "done")

(* await userRef.set({...}): the create branch *)
ProviderSet(c) ==
    /\ pc[c] = "providerSet"
    /\ UNCHANGED cookieStore
    /\ \/ /\ clock' = clock + 1
          /\ users' = DocSet(users, req[c].uid,
                             providerCreateDoc(req[c].name, req[c].email,
                                               req[c].profileURL, clock))
          /\ Goto(c, [Called(req[c], "users.set") EXCEPT
                         !.branch = "create", !.stamp = <<clock>>], "session")
       \/ /\ UNCHANGED <<users, clock>>
          /\ Goto(c, Done(Failed(req[c], "users.set"),
                          providerFailure(StoreError("unavailable"))), "done")

(* await userRef.update({...}): the update branch, from the snapshot read *)
ProviderUpdate(c) ==
    /\ pc[c] = "providerUpdate"
    /\ UNCHANGED cookieStore
    /\ \/ /\ req[c].uid \in DOMAIN users
          /\ clock' = clock + 1
          /\ users' = DocUpdate(users, req[c].uid,
                                providerUpdatePatch(req[c].userDoc, req[c].name,
                                                    req[c].profileURL, clock))
          /\ Goto(c, [Called(req[c], "users.update") EXCEPT
                         !.branch = "update", !.stamp = <<clock>>], "session")
       \/ /\ UNCHANGED <<users, clock>>
          /\ Goto(c, Done(Failed(req[c], "users.update"),
                          providerFailure(StoreError("unavailable"))), "done")

----------------------------------------------------------------------------
(* signOut: the whole handler, no await on an external service *)
signOut(c) ==
    /\ UNCHANGED <<users, clock>>
    /\ LET r == [Blank EXCEPT !.op = "signOut", !.cookie0 = cookieStore[c]]
       IN \/ /\ cookieStore' = [cookieStore EXCEPT
                                   ![c] = IF cookieHas(@) THEN cookieDelete(@) ELSE @]
             /\ Start(c, Done(IF cookieHas(cookieStore[c])
                              THEN Called(r, "cookies.delete") ELSE r, Void), "done")
          \/ /\ cookieHas(cookieStore[c])
             /\ UNCHANGED cookieStore
             /\ Start(c, Done(Failed(r, "cookies.delete"), Void), "done")

----------------------------------------------------------------------------
(* getCurrentUser and isAuthenticated (which awaits getCurrentUser) *)

(* cookieStore.get("session") and the !value check, before any await on a service *)
ReadSession(c, op) ==
    /\ UNCHANGED <<users, cookieStore, clock>>
    /\ LET r == [Blank EXCEPT !.op = op, !.cookie0 = cookieStore[c]]
       IN IF ~Truthy(cookieGet(cookieStore[c]))
          THEN Start(c, Done([r EXCEPT !.branch = "none"], Resolved(op, NoUser)), "done")
          ELSE Start(c, r, "verifySessionCookie")

getCurrentUser(c) ==
    /\ pc[c] \in {"idle", "done"}
    /\ ReadSession(c, "getCurrentUser")

isAuthenticated(c) ==
    /\ pc[c] \in {"idle", "done"}
    /\ ReadSession(c, "isAuthenticated")

(* if (cookieStore.has("session")) cookieStore.delete("session"), inside   *)
(* its own try/catch, then return null                                     *)
ClearSession(c, r, branch) ==
    \/ /\ cookieStore' = [cookieStore EXCEPT
                             ![c] = IF cookieHas(@) THEN cookieDelete(@) ELSE @]
       /\ Goto(c, Done([(IF cookieHas(cookieStore[c])
                         THEN Called(r, "cookies.delete") ELSE r)
                        EXCEPT !.branch = branch], Resolved(r.op, NoUser)), "done")
    \/ /\ cookieHas(cookieStore[c])
       /\ UNCHANGED cookieStore
       /\ Goto(c, Done([Failed(r, "cookies.delete") EXCEPT !.branch = branch],
                       Resolved(r.op, NoUser)), "done")

(* await auth.verifySessionCookie(value, true) *)
VerifySessionCookie(c) ==
    /\ pc[c] = "verifySessionCookie"
    /\ UNCHANGED <<users, clock>>
    /\ \/ /\ SessionGenuine(cookieGet(req[c].cookie0))
          /\ UNCHANGED cookieStore
          /\ Goto(c, [Called(req[c], "verifySessionCookie") EXCEPT
                         !.decodedUid = SessionUid(cookieGet(req[c].cookie0))],
                  "currentUserGet")
       \/ ClearSession(c, Failed(req[c], "verifySessionCookie"), "invalid")

CurrentUserGetTouches(c) ==
    /\ pc[c] = "currentUserGet"
    /\ req[c].decodedUid \in DOMAIN users
    /\ users' = DocUpdate(users, req[c].decodedUid, signInPatch(clock))
    /\ UNCHANGED <<cookieStore, clock>>
    /\ Goto(c, Done([Called(req[c], "users.get") EXCEPT !.branch = "found"],
                    Resolved(req[c].op,
                             UserOf(req[c].decodedUid, users[req[c].decodedUid]))),
            "done")

(* await db.collection("users").doc(decodedClaims.uid).get() *)
CurrentUserGet(c) ==
    /\ pc[c] = "currentUserGet"
    /\ UNCHANGED <<users, clock>>
    /\ LET r == [Called(req[c], "users.get") EXCEPT
                    !.userDoc = DocGet(users, req[c].decodedUid)]
       IN \/ /\ r.userDoc.exists
             /\ UNCHANGED cookieStore
             /\ Goto(c, Done([r EXCEPT !.branch = "found"],
                             Resolved(r.op, UserOf(r.decodedUid, r.userDoc.data))), "done")
          \/ /\ ~r.userDoc.exists
             /\ ClearSession(c, r, "missing")
          \/ ClearSession(c, Failed(req[c], "users.get"), "invalid")

----------------------------------------------------------------------------
Step(c) ==
    \/ setSessionCookie(c)
    \/ SessionCookieBody(c)
    \/ signUp(c)
    \/ SignUpGet(c)
    \/ SignUpSet(c)
    \/ signIn(c)
    \/ VerifyIdToken(c)
    \/ SignInUpdate(c)
    \/ signInOrSignUpWithProvider(c)
    \/ ProviderGet(c)
    \/ ProviderSet(c)
    \/ ProviderUpdate(c)
    \/ signOut(c)
    \/ getCurrentUser(c)
    \/ isAuthenticated(c)
    \/ VerifySessionCookie(c)
    \/ CurrentUserGet(c)

Next == \E c \in Clients : Step(c)

Spec == Init /\ [][Next]_vars

(* One request at a time: no other client is inside a request *)
Alone(c) == \A d \in Clients \ {c} : pc[d] \in {"idle", "done"}

NextSeq ==
    \E c \in Clients :
        \/ Alone(c) /\ setSessionCookie(c)
        \/ Alone(c) /\ SessionCookieBody(c)
        \/ Alone(c) /\ signUp(c)
        \/ Alone(c) /\ SignUpGet(c)
        \/ Alone(c) /\ SignUpSet(c)
        \/ Alone(c) /\ signIn(c)
        \/ Alone(c) /\ VerifyIdToken(c)
        \/ Alone(c) /\ SignInUpdate(c)
        \/ Alone(c) /\ signInOrSignUpWithProvider(c)
        \/ Alone(c) /\ ProviderGet(c)
        \/ Alone(c) /\ ProviderSet(c)
        \/ Alone(c) /\ ProviderUpdate(c)
        \/ Alone(c) /\ signOut(c)
        \/ Alone(c) /\ getCurrentUser(c)
        \/ Alone(c) /\ isAuthenticated(c)
        \/ Alone(c) /\ VerifySessionCookie(c)
        \/ Alone(c) /\ CurrentUserGet(c)

SpecSeq == Init /\ [][NextSeq]_vars

----------------------------------------------------------------------------
(* Session Resolver *)

Resolver(c) == req[c].op \in {"getCurrentUser", "isAuthenticated"}

Returned(c) == pc[c] = "done"

(* getCurrentUser found a cookie and then verification failed, or it      *)
(* verified and found no record for the decoded uid                        *)
Unresolved(c) ==
    /\ Returned(c)
    /\ req[c].op = "getCurrentUser"
    /\ \/ "verifySessionCookie" \in req[c].failed
       \/ req[c].branch = "missing"

(* C1, as stated: whenever getCurrentUser, called with a session cookie,   *)
(* fails to verify it or finds no record for its uid, it returns null and  *)
(* the session cookie is absent from the cookie store when it returns.     *)
C1_CookieAlwaysGone ==
    \A c \in Clients :
        Unresolved(c) => req[c].result = NoUser /\ ~cookieHas(cookieStore[c])

(* C1, amended: in those cases getCurrentUser returns null, and the        *)
(* session cookie is absent when it returns unless cookieStore.delete      *)
(* itself threw, in which case the error is only logged and the cookie is  *)
(* the one the call found.                                                 *)
C1_CookieGoneUnlessDeleteThrows ==
    \A c \in Clients :
        Unresolved(c) =>
            /\ req[c].result = NoUser
            /\ IF "cookies.delete" \in req[c].failed
               THEN cookieStore[c] = req[c].cookie0
               ELSE ~cookieHas(cookieStore[c])

C1_Witness ==
    \E c \in Clients :
        /\ Unresolved(c)
        /\ req[c].branch = "missing"
        /\ cookieHas(req[c].cookie0)
        /\ ~cookieHas(cookieStore[c])

(* C2: with no session cookie, or one whose value is empty, getCurrentUser *)
(* returns null and isAuthenticated returns false at once: no call to the  *)
(* identity platform, no read of the document store, and the cookie store  *)
(* is as it was.                                                           *)
C2_NoCookieNoCalls ==
    \A c \in Clients :
        (Resolver(c) /\ req[c].cookie0 \in {<<>>, <<"">>}) =>
            /\ Returned(c)
            /\ req[c].calls = <<>>
            /\ cookieStore[c] = req[c].cookie0
            /\ req[c].result =
                   (IF req[c].op = "isAuthenticated" THEN Bool(FALSE) ELSE NoUser)

C2_Witness ==
    \E c, d \in Clients :
        /\ req[c].op = "isAuthenticated" /\ req[c].cookie0 = <<"">>
        /\ req[c].result = Bool(FALSE)
        /\ req[d].op = "getCurrentUser" /\ req[d].cookie0 = <<"">>
        /\ req[d].result = NoUser

(* C3: setSessionCookie sets the session cookie only once                  *)
(* createSessionCookie has succeeded, and to the value it returned; when   *)
(* the identity token is invalid or createSessionCookie fails, the cookie  *)
(* store is unchanged and the call ends by throwing.                       *)
C3_SessionIssuer ==
    \A c \in Clients :
        (req[c].op = "setSessionCookie" /\ Returned(c)) =>
            /\ (~TokenValid(req[c].idToken) \/ "createSessionCookie" \in req[c].failed) =>
                   /\ req[c].result.kind = "thrown"
                   /\ cookieStore[c] = req[c].cookie0
            /\ req[c].result.kind = "thrown" => cookieStore[c] = req[c].cookie0
            /\ req[c].result.kind # "thrown" =>
                   /\ req[c].result = Void
                   /\ req[c].calls = <<"createSessionCookie", "cookies.set">>
                   /\ req[c].failed = {}
                   /\ TokenValid(req[c].idToken)
                   /\ cookieStore[c] = <<SessionFor(TokenUid(req[c].idToken))>>

C3_Witness ==
    \E c, d \in Clients :
        /\ req[c].op = "setSessionCookie" /\ Returned(c)
        /\ req[c].result.kind = "thrown" /\ ~TokenValid(req[c].idToken)
        /\ req[d].op = "setSessionCookie" /\ Returned(d)
        /\ req[d].result = Void /\ cookieStore[d] = <<"session:u2">>
        /\ req[d].cookie0 # cookieStore[d]

----------------------------------------------------------------------------
(* User Record Store *)

Provider(c) == req[c].op = "signInOrSignUpWithProvider"

(* The create-or-update step of the provider sign-in of c has been carried out *)
Ensured(c) == Provider(c) /\ req[c].branch # ""

(* C4, as stated: two provider sign-ins for the same id never both take    *)
(* the create branch; one creates the record and the other updates it, as  *)
(* if the two create-or-update steps had run one after the other.          *)
C4_EnsureRecordAtomic ==
    \A c, d \in Clients :
        (c # d /\ Ensured(c) /\ Ensured(d) /\ req[c].uid = req[d].uid) =>
            ~(req[c].branch = "create" /\ req[d].branch = "create")

(* C5: when a provider sign-in that created the record of u is followed    *)
(* by another one for u, the second takes the update branch, and right     *)
(* after its write the one document of u has the createdAt the first call  *)
(* wrote and the lastLoginAt the second call wrote.                        *)
C5_EnsureRecordTwice ==
    \A c \in Clients :
        (/\ Ensured(c) /\ pc[c] = "session"
         /\ req[c].prev.op = "signInOrSignUpWithProvider"
         /\ req[c].prev.uid = req[c].uid
         /\ req[c].prev.branch = "create") =>
            /\ req[c].branch = "update"
            /\ req[c].uid \in DOMAIN users
            /\ users[req[c].uid].createdAt = req[c].prev.stamp[1]
            /\ users[req[c].uid].lastLoginAt = req[c].stamp[1]
            /\ req[c].stamp[1] > req[c].prev.stamp[1]

C5_Witness ==
    \E c \in Clients :
        /\ Ensured(c) /\ pc[c] = "session"
        /\ req[c].prev.op = "signInOrSignUpWithProvider"
        /\ req[c].prev.uid = req[c].uid
        /\ req[c].prev.branch = "create"
        /\ users[req[c].uid].lastLoginAt = req[c].stamp[1]

(* C6: a signUp whose read finds a record for the id returns               *)
(* {success:false} with the account-exists message and its step leaves     *)
(* every document as it was; a signUp whose read finds none and whose      *)
(* write goes through stores name, email, createdAt and provider "email"   *)
(* under the id and returns {success:true}.                                *)
C6_CreateRecord ==
    [][\A c \in Clients :
          /\ (pc[c] = "signUpGet" /\ pc'[c] # pc[c] /\ req[c].uid \in DOMAIN users
              /\ "users.get" \notin req'[c].failed) =>
                 /\ pc'[c] = "done"
                 /\ req'[c].result = [kind |-> "result", success |-> FALSE,
                                      message |-> AccountExists]
                 /\ users' = users
          /\ (pc[c] = "signUpGet" /\ pc'[c] # pc[c] /\ req[c].uid \notin DOMAIN users
              /\ "users.get" \notin req'[c].failed) =>
                 /\ pc'[c] = "signUpSet"
                 /\ users' = users
          /\ (pc[c] = "signUpSet" /\ pc'[c] # pc[c]
              /\ "users.set" \notin req'[c].failed) =>
                 /\ req'[c].result.kind = "result"
                 /\ req'[c].result.success
                 /\ users'[req[c].uid] =
                        [name |-> req[c].name, email |-> req[c].email,
                         createdAt |-> clock, provider |-> "email"]
                 /\ \A u \in DOMAIN users \ {req[c].uid} : users'[u] = users[u]
      ]_vars

C6_Witness ==
    \E c, d \in Clients :
        /\ req[c].op = "signUp" /\ Returned(c) /\ req[c].result.success
        /\ req[d].op = "signUp" /\ Returned(d) /\ req[d].uid = req[c].uid
        /\ req[d].result = Failure(AccountExists)
        /\ users[req[c].uid].provider = "email"
        /\ users[req[c].uid].createdAt = req[c].stamp[1]

----------------------------------------------------------------------------
(* Orchestration *)

(* The previous request of c was a provider sign-in for uid u that returned *)
(* {success:true} on an identity token of u                                 *)
FreshProviderSignIn(c, u) ==
    /\ req[c].prev.op = "signInOrSignUpWithProvider"
    /\ req[c].prev.success
    /\ req[c].prev.uid = u
    /\ TokenUid(req[c].prev.idToken) = u

(* C7: a provider sign-in issues the session cookie only after its record  *)
(* write; when it has returned {success:true} for u on a token of u the    *)
(* record of u exists, and a getCurrentUser that the same browser makes    *)
(* next never takes the record-missing branch and, when verification and   *)
(* the read go through, returns the record of u (its id, and the email and *)
(* createdAt the store holds for u); right after the create branch the     *)
(* record has provider "google" and a createdAt.                           *)
C7_RecordBeforeSession ==
    \A c \in Clients :
        /\ (Provider(c) /\ "createSessionCookie" \in Range(req[c].calls)) => Ensured(c)
        /\ (Provider(c) /\ Returned(c) /\ req[c].result.success) =>
               /\ Ensured(c)
               /\ req[c].uid \in DOMAIN users
               /\ req[c].calls[Len(req[c].calls)] = "cookies.set"
               /\ req[c].calls[1] = "users.get"
        /\ (Provider(c) /\ pc[c] = "session" /\ req[c].branch = "create") =>
               /\ req[c].uid \in DOMAIN users
               /\ users[req[c].uid].provider = "google"
               /\ users[req[c].uid].createdAt = req[c].stamp[1]
        /\ \A u \in Uids :
               (req[c].op = "getCurrentUser" /\ Returned(c) /\ FreshProviderSignIn(c, u)) =>
                   /\ req[c].branch # "missing"
                   /\ req[c].failed = {} =>
                          /\ req[c].result.kind = "user"
                          /\ req[c].result.user.id = u
                          /\ req[c].result.user.email = users[u].email
                          /\ req[c].result.user.createdAt = users[u].createdAt
                          /\ DOMAIN req[c].result.user \subseteq DOMAIN users[u] \cup {"id"}

C7_Witness ==
    \E c \in Clients :
        /\ req[c].op = "getCurrentUser" /\ Returned(c)
        /\ FreshProviderSignIn(c, "u1")
        /\ req[c].prev.branch = "create"
        /\ req[c].result.kind = "user"
        /\ req[c].result.user.provider = "google"

SignInSteps == <<"createSessionCookie", "cookies.set", "verifyIdToken", "users.update">>

(* C8: signIn carries out session issuance (createSessionCookie, then the  *)
(* cookie), then token verification, then the lastLoginAt update, in that  *)
(* order; the step that fails is the last one it carries out, and it then  *)
(* returns {success:false} with a message; it returns {success:true} only  *)
(* with every step carried out and none failed.                            *)
C8_SignInSequence ==
    \A c \in Clients :
        req[c].op = "signIn" =>
            /\ Len(req[c].calls) <= Len(SignInSteps)
            /\ \A i \in 1..Len(req[c].calls) : req[c].calls[i] = SignInSteps[i]
            /\ req[c].failed # {} =>
                   /\ Returned(c)
                   /\ req[c].failed = {req[c].calls[Len(req[c].calls)]}
                   /\ req[c].result.kind = "result"
                   /\ ~req[c].result.success
                   /\ req[c].result.message # ""
            /\ (Returned(c) /\ req[c].failed = {}) =>
                   /\ req[c].calls = SignInSteps
                   /\ req[c].result = [kind |-> "result", success |-> TRUE]
            /\ "users.update" \in Range(req[c].calls) =>
                   cookieStore[c] = <<SessionFor(TokenUid(req[c].idToken))>>

C8_Witness ==
    \E c \in Clients :
        /\ req[c].op = "signIn" /\ Returned(c)
        /\ req[c].failed = {"verifyIdToken"}
        /\ req[c].calls = <<"createSessionCookie", "cookies.set", "verifyIdToken">>
        /\ ~req[c].result.success

(* What each action hands back when it completes without throwing *)
ReturnKinds(op) ==
    CASE op = "setSessionCookie" -> {"void"}
      [] op = "signOut" -> {"void"}
      [] op = "getCurrentUser" -> {"null", "user"}
      [] op = "isAuthenticated" -> {"bool"}
      [] OTHER -> {"result"}

(* C9, as stated: no exported action, setSessionCookie included, ends by   *)
(* throwing: whatever external call fails, the action returns a value.     *)
C9_NoActionThrows ==
    \A c \in Clients :
        /\ req[c].failed # {} => Returned(c)
        /\ Returned(c) => req[c].result.kind \in ReturnKinds(req[c].op)

(* C9, amended: signUp, signIn, signInOrSignUpWithProvider, signOut,       *)
(* getCurrentUser and isAuthenticated end by returning a value whatever    *)
(* external call fails ({success:false, message} from the first three);    *)
(* setSessionCookie alone ends by throwing, exactly when createSessionCookie *)
(* or the cookie write failed.                                             *)
C9_OnlySetSessionCookieThrows ==
    \A c \in Clients :
        /\ req[c].failed # {} => Returned(c)
        /\ (Returned(c) /\ req[c].op # "setSessionCookie") =>
               req[c].result.kind \in ReturnKinds(req[c].op)
        /\ (Returned(c) /\ req[c].failed # {}
            /\ req[c].op \in {"signUp", "signIn", "signInOrSignUpWithProvider"}) =>
               /\ ~req[c].result.success
               /\ req[c].result.message # ""
        /\ (Returned(c) /\ req[c].op = "setSessionCookie") =>
               IF req[c].failed = {} THEN req[c].result = Void
               ELSE req[c].result = [kind |-> "thrown",
                                     message |-> "Failed to set session cookie."]

C9_Witness ==
    \E c, d \in Clients :
        /\ Returned(c) /\ req[c].op = "setSessionCookie"
        /\ req[c].result.kind = "thrown"
        /\ Returned(d) /\ req[d].op = "signInOrSignUpWithProvider"
        /\ "createSessionCookie" \in req[d].failed
        /\ ~req[d].result.success

(* C10, as stated: no step of any run changes a provider that a User       *)
(* Record already holds to a different value, nor removes the record.      *)
C10_ProviderNeverChanges ==
    [][\A u \in DOMAIN users :
          /\ u \in DOMAIN users'
          /\ ("provider" \in DOMAIN users[u] /\ Truthy(users[u].provider)) =>
                 users'[u].provider = users[u].provider]_vars

----------------------------------------------------------------------------
(* C11, as stated: once signOut has returned the browser holds no session  *)
(* cookie, whether or not one was there before; signOut reads and writes   *)
(* no User Record; a getCurrentUser that follows returns null.             *)
C11_SignOutAlwaysClears ==
    \A c \in Clients :
        (req[c].op = "signOut" /\ Returned(c)) =>
            /\ cookieStore[c] = <<>>
            /\ Range(req[c].calls) \subseteq {"cookies.delete"}

(* C11, amended: signOut always returns normally and touches only the      *)
(* cookie store. It leaves no session cookie unless cookieStore.delete     *)
(* threw (the throw is swallowed), and then the cookie is exactly the one  *)
(* that was there before. A second signOut on the emptied store makes no   *)
(* call at all, and a getCurrentUser that follows a signOut which left no  *)
(* cookie returns null without calling any service.                        *)
C11_SignOutClearsUnlessDeleteThrows ==
    [][\A c \in Clients :
          /\ (req'[c].op = "signOut" /\ Returned(c)') =>
                 /\ req'[c].result = Void
                 /\ Range(req'[c].calls) \subseteq {"cookies.delete"}
                 /\ req'[c].failed \subseteq {"cookies.delete"}
                 /\ IF req'[c].failed = {}
                    THEN cookieStore'[c] = <<>>
                    ELSE cookieStore'[c] = req'[c].cookie0
                 /\ req'[c].cookie0 = <<>> => req'[c].calls = <<>>
          /\ (req'[c] # req[c] /\ req'[c].op = "signOut") => users' = users
          /\ (req[c].op = "signOut" /\ Returned(c) /\ cookieStore[c] = <<>>
              /\ req'[c] # req[c] /\ req'[c].op = "getCurrentUser") =>
                 /\ Returned(c)'
                 /\ req'[c].result = NoUser
                 /\ req'[c].calls = <<>>]_vars

(* Client c signed out and then asked for the current user: the other     *)
(* browser, which has made no request, still holds the initial cookie with *)
(* the empty value, and of the actions only signOut removes such a cookie. *)
C11_Witness ==
    \E c \in Clients :
        /\ req[c].op = "getCurrentUser" /\ Returned(c)
        /\ nreq = 2
        /\ req[c].cookie0 = <<>>
        /\ req[c].result = NoUser
        /\ cookieStore[c] = <<>>
        /\ \A d \in Clients \ {c} : pc[d] = "idle" /\ cookieStore[d] = <<"">>

----------------------------------------------------------------------------
(* C15: no step of a getCurrentUser or isAuthenticated call, whatever its  *)
(* outcome (no cookie, verification failure, record missing, success),     *)
(* creates, updates or deletes a User Record: the users collection is the  *)
(* same before and after each of its steps.                                *)
C15_ResolverOnlyReads ==
    [][\A c \in Clients :
          (req'[c] # req[c] /\ Resolver(c)') => users' = users]_vars

(* A resolver call has verified the cookie, read the record and returned  *)
(* the user                                                                *)
C15_Witness ==
    \E c \in Clients :
        /\ Resolver(c) /\ Returned(c) /\ req[c].branch = "found"
        /\ req[c].calls = <<"verifySessionCookie", "users.get">>
        /\ req[c].result.kind \in {"user", "bool"}
        /\ users # <<>>

----------------------------------------------------------------------------
(* C16: the update step of signInOrSignUpWithProvider on an existing       *)
(* record leaves a document whose name is the supplied name, whose         *)
(* profileURL is the supplied one if present and otherwise the one stored  *)
(* before, whose provider is the one stored before if set and otherwise    *)
(* "google", whose lastLoginAt is the time of the call, and whose email    *)
(* and createdAt are as before; no other document changes.                 *)
C16_UpdateBranchDocument ==
    [][\A c \in Clients :
          (pc[c] = "providerUpdate" /\ pc'[c] = "session") =>
              LET u == req[c].uid
                  old == users[u]
                  new == users'[u]
              IN /\ DOMAIN users' = DOMAIN users
                 /\ \A v \in DOMAIN users \ {u} : users'[v] = users[v]
                 /\ new.name = req[c].name
                 /\ Field(new, "profileURL") =
                        IF Truthy(req[c].profileURL) THEN req[c].profileURL
                        ELSE Field(old, "profileURL")
                 /\ new.provider = IF Truthy(Field(old, "provider"))
                                   THEN old.provider ELSE "google"
                 /\ new.lastLoginAt = clock
                 /\ new.email = old.email
                 /\ new.createdAt = old.createdAt
                 /\ DOMAIN new = DOMAIN old \cup {"profileURL", "lastLoginAt"}]_vars

(* An update with no profileURL supplied has just been written over a      *)
(* record that another caller created with one: the stored profileURL and  *)
(* email are kept, the name is the new caller's                            *)
C16_Witness ==
    \E c \in Clients :
        /\ pc[c] = "session" /\ req[c].op = "signInOrSignUpWithProvider"
        /\ req[c].branch = "update"
        /\ ~Truthy(req[c].profileURL)
        /\ users[req[c].uid].profileURL = "http://p/1"
        /\ users[req[c].uid].name = req[c].name
        /\ users[req[c].uid].email # req[c].email
        /\ users[req[c].uid].lastLoginAt = req[c].stamp[1]

----------------------------------------------------------------------------
(* C17, as stated: a signIn call that returns {success:false} leaves the   *)
(* browser's cookie store as it found it; only a call that returns         *)
(* {success:true} has set a session cookie.                                *)
C17_SignInAllOrNothing ==
    \A c \in Clients :
        (req[c].op = "signIn" /\ Returned(c)) =>
            /\ ~req[c].result.success => cookieStore[c] = req[c].cookie0
            /\ "cookies.set" \in Range(req[c].calls) \ req[c].failed =>
                   req[c].result.success

----------------------------------------------------------------------------
(* C18, as stated: signInOrSignUpWithProvider writes the record of the uid *)
(* it is given only when the idToken it is given is a valid token of that  *)
(* uid, and none of its steps changes any document in a call that returns  *)
(* {success:false}.                                                        *)
C18_RecordOnlyForTokenHolder ==
    [][\A c \in Clients :
          (req'[c] # req[c] /\ req'[c].op = "signInOrSignUpWithProvider") =>
              /\ users' # users =>
                     /\ TokenValid(req[c].idToken)
                     /\ TokenUid(req[c].idToken) = req[c].uid
              /\ (Returned(c)' /\ ~req'[c].result.success) =>
                     Range(req'[c].calls) \cap {"users.set", "users.update"}
                         \subseteq req'[c].failed]_vars

----------------------------------------------------------------------------
(* C19, as stated: a getCurrentUser call deletes the session cookie only   *)
(* when verification of the cookie failed or the store reported the user   *)
(* record absent; a call whose cookie passed verification returns with the *)
(* cookie it found still in the store, also when the read of the record    *)
(* failed with an error.                                                   *)
C19_CookieKeptWhenReadFails ==
    \A c \in Clients :
        (/\ Resolver(c) /\ Returned(c)
         /\ "verifySessionCookie" \in Range(req[c].calls) \ req[c].failed
         /\ SessionUid(cookieGet(req[c].cookie0)) \in DOMAIN users
         /\ req[c].branch # "missing") =>
            cookieStore[c] = req[c].cookie0

----------------------------------------------------------------------------
(* C20, as stated: of the signUp calls made for one uid, at most one       *)
(* returns {success:true}, and once a signUp has written the document of a *)
(* uid no later step changes its createdAt.                                *)
C20_OneSignUpSucceeds ==
    [][/\ \A c, d \in Clients :
             (/\ c # d
              /\ req'[c].op = "signUp" /\ Returned(c)'
              /\ req'[d].op = "signUp" /\ Returned(d)'
              /\ req'[c].uid = req'[d].uid) =>
                 ~(req'[c].result.success /\ req'[d].result.success)
       /\ \A u \in DOMAIN users :
             /\ u \in DOMAIN users'
             /\ users'[u].createdAt = users[u].createdAt]_vars

----------------------------------------------------------------------------
(* The browser-side flows: AuthForm.onSubmit and handleGoogleSignIn        *)

(* Errors as the catch blocks see them: error.code ("" when the error has  *)
(* none) and error.message, a text given as the sequence of its parts      *)
(* (<<>> when empty). The Firebase client SDK writes the code into the     *)
(* message; other errors thrown inside the try need not.                   *)
FirebaseError(code) == [code |-> code, message |-> <<"Firebase: Error (", code, ").">>]

BareError(code) == [code |-> code, message |-> <<>>]

PlainError(code, text) == [code |-> code, message |-> <<text>>]

(* Errors with a code the forms do not know, and errors without a code *)
OtherErrors ==
    {FirebaseError("auth/network-request-failed"),
     BareError("auth/network-request-failed"),
     PlainError("auth/internal-error", "Something went wrong."),
     PlainError("", "Failed to fetch"),
     BareError("")}

ErrorsOf(codes) == {FirebaseError(k) : k \in codes} \cup {BareError(k) : k \in codes}

EmailInUse == ErrorsOf({"auth/email-already-in-use"})

CreateUserErrors == ErrorsOf({"auth/invalid-email", "auth/weak-password"}) \cup OtherErrors

SignInErrors ==
    ErrorsOf({"auth/user-not-found", "auth/wrong-password", "auth/invalid-credential",
              "auth/invalid-email"}) \cup OtherErrors

PopupClosed == ErrorsOf({"auth/popup-closed-by-user"})

PopupErrors == PopupClosed \cup ErrorsOf({"auth/popup-blocked"}) \cup OtherErrors

(* A server action could not be reached: the call itself rejects *)
TransportError == PlainError("", "Failed to fetch")

(* The identity platform's accounts: accounts[email] is the uid of the     *)
(* account registered under email                                          *)
AccountUids == {accounts[e] : e \in DOMAIN accounts}

Register(email, uid) ==
    [e \in DOMAIN accounts \cup {email} |-> IF e = email THEN uid ELSE accounts[e]]

IdTokenOf(uid) == "idtoken:" \o uid

(* The catch of AuthForm.onSubmit: the message shown for a caught error *)
errorMessageIgnoresCode(error) ==
    IF error.message # <<>> THEN error.message ELSE <<"An unexpected error occurred.">>

errorMessage(error) ==
    IF error.code # ""
    THEN CASE error.code = "auth/email-already-in-use" ->
                  <<"This email is already registered. Please sign in.">>
           [] error.code = "auth/invalid-email" ->
                  <<"Please enter a valid email address.">>
           [] error.code = "auth/weak-password" ->
                  <<"Password is too weak. Please use at least 6 characters.">>
           [] error.code \in {"auth/user-not-found", "auth/wrong-password",
                              "auth/invalid-credential"} ->
                  <<"Invalid email or password.">>
           [] OTHER ->
                  <<"Authentication failed: ">> \o
                      (IF error.message # <<>> THEN error.message ELSE <<error.code>>)
    ELSE IF error.message # <<>> THEN error.message
         ELSE <<"An unexpected error occurred.">>

(* toast.error / toast.success *)
Toast(u, kind, text) == [u EXCEPT !.toasts = Append(@, [kind |-> kind, text |-> text])]

UICalled(u, call) == [u EXCEPT !.calls = Append(@, call)]

(* result.message || fallback, of a {success:false} result *)
resultMessageDefaulted(result, fallback) == <<fallback>>

resultMessage(result, fallback) ==
    IF Truthy(result.message) THEN <<result.message>> ELSE <<fallback>>

(* The submission is over: what it showed stays on the page *)
UIEnd(c, u) == ui' = [ui EXCEPT ![c] = [u EXCEPT !.at = "end"]]

UIGoto(c, u, at) == ui' = [ui EXCEPT ![c] = [u EXCEPT !.at = at]]

(* catch (error) { ... toast.error(errorMessage) } of AuthForm.onSubmit *)
FormCatch(c, u, error) ==
    UIEnd(c, [Toast(u, "error", errorMessage(error)) EXCEPT
                 !.error = error, !.failed = u.calls[Len(u.calls)]])

(* onSubmit is entered: the form has validated the fields (name, email and *)
(* password are present), and the first call of the branch is awaited      *)
onSubmit(c) ==
    \E type \in {"sign-up", "sign-in"} :
        /\ ui[c].at \in {"idle", "end"}
        /\ pc[c] \in {"idle", "done"}
        /\ UIGoto(c, [UIBlank EXCEPT !.flow = type, !.cookie0 = cookieStore[c]],
                  IF type = "sign-up" THEN "createUser" ELSE "signInWithPassword")
        /\ UNCHANGED <<users, cookieStore, clock, pc, req, nreq, accounts>>

(* await createUserWithEmailAndPassword(auth, email, password) *)
CreateUserWithEmailAndPassword(c) ==
    /\ ui[c].at = "createUser"
    /\ UNCHANGED <<users, cookieStore, clock, pc, req, nreq>>
    /\ LET email == Profile(c).email
           u == UICalled(ui[c], "createUserWithEmailAndPassword")
       IN \/ /\ email \notin DOMAIN accounts
             /\ \E uid \in Uids \ AccountUids :
                   /\ accounts' = Register(email, uid)
                   /\ UIGoto(c, [u EXCEPT !.uid = uid], "signUp")
          \/ /\ email \in DOMAIN accounts
             /\ UNCHANGED accounts
             /\ \E error \in EmailInUse : FormCatch(c, u, error)
          \/ /\ UNCHANGED accounts
             /\ \E error \in CreateUserErrors : FormCatch(c, u, error)

(* await signUp({uid, name, email, password}): the server action is called *)
FormSignUp(c) ==
    /\ ui[c].at = "signUp"
    /\ UNCHANGED <<users, cookieStore, clock, accounts>>
    /\ \/ /\ Invoke(c, [Blank EXCEPT !.op = "signUp", !.uid = ui[c].uid,
                                     !.name = Profile(c).name,
                                     !.email = Profile(c).email,
                                     !.cookie0 = cookieStore[c]], "signUpGet")
          /\ UIGoto(c, UICalled(ui[c], "signUp"), "signUpResult")
       \/ /\ UNCHANGED <<pc, req, nreq>>
          /\ FormCatch(c, UICalled(ui[c], "signUp"), TransportError)

(* signUp has returned: if (!result.success) toast.error(...) and return,  *)
(* else toast.success(...) and router.push("/sign-in")                     *)
FormSignUpResult(c) ==
    /\ ui[c].at = "signUpResult"
    /\ pc[c] = "done"
    /\ UNCHANGED <<users, cookieStore, clock, pc, req, nreq, accounts>>
    /\ LET result == req[c].result
           u == [ui[c] EXCEPT !.result = result]
       IN IF ~result.success
          THEN UIEnd(c, Toast(u, "error", resultMessage(result, "Sign up failed on server.")))
          ELSE UIEnd(c, [Toast(u, "success",
                               <<"Account created successfully. Please sign in.">>)
                         EXCEPT !.route = "/sign-in"])

(* await signInWithEmailAndPassword(auth, email, password) *)
SignInWithEmailAndPassword(c) ==
    /\ ui[c].at = "signInWithPassword"
    /\ UNCHANGED <<users, cookieStore, clock, pc, req, nreq, accounts>>
    /\ LET email == Profile(c).email
           u == UICalled(ui[c], "signInWithEmailAndPassword")
       IN \/ /\ email \in DOMAIN accounts
             /\ UIGoto(c, [u EXCEPT !.uid = accounts[email]], "getIdToken")
          \/ \E error \in SignInErrors : FormCatch(c, u, error)

(* await userCredential.user.getIdToken() *)
FormGetIdToken(c) ==
    /\ ui[c].at = "getIdToken"
    /\ UNCHANGED <<users, cookieStore, clock, pc, req, nreq, accounts>>
    /\ LET u == UICalled(ui[c], "getIdToken")
       IN \/ UIGoto(c, [u EXCEPT !.idToken = IdTokenOf(u.uid)], "signIn")
          \/ FormCatch(c, u, FirebaseError("auth/network-request-failed"))

(* await signIn({email, idToken}): the server action is called *)
FormSignIn(c) ==
    /\ ui[c].at = "signIn"
    /\ UNCHANGED <<users, cookieStore, clock, accounts>>
    /\ \/ /\ Invoke(c, [Blank EXCEPT !.op = "signIn", !.idToken = ui[c].idToken,
                                     !.cookie0 = cookieStore[c]], "session")
          /\ UIGoto(c, UICalled(ui[c], "signIn"), "signInResult")
       \/ /\ UNCHANGED <<pc, req, nreq>>
          /\ FormCatch(c, UICalled(ui[c], "signIn"), TransportError)

(* signIn has returned: if (result && result.success === false)            *)
(* toast.error(...) and return, else toast.success(...), router.push("/")  *)
FormSignInResult(c) ==
    /\ ui[c].at = "signInResult"
    /\ pc[c] = "done"
    /\ UNCHANGED <<users, cookieStore, clock, pc, req, nreq, accounts>>
    /\ LET result == req[c].result
           u == [ui[c] EXCEPT !.result = result]
       IN IF ~result.success
          THEN UIEnd(c, Toast(u, "error", resultMessage(result, "Sign in failed on server.")))
          ELSE UIEnd(c, [Toast(u, "success", <<"Signed in successfully.">>)
                         EXCEPT !.route = "/"])

(* error.code !== 'auth/popup-closed-by-user' *)
popupErrorShownAlways(error) == TRUE

popupErrorShown(error) == error.code # "auth/popup-closed-by-user"

(* catch (error) of handleGoogleSignIn: the toast unless the popup was     *)
(* closed by the user, then setIsLoading(false)                            *)
GoogleCatch(c, u, error) ==
    LET shown == IF popupErrorShown(error)
                 THEN Toast(u, "error",
                            <<"Google Sign-In failed: ">> \o
                                (IF error.message # <<>> THEN error.message
                                 ELSE <<"Unknown error">>))
                 ELSE u
    IN UIEnd(c, [shown EXCEPT !.error = error, !.failed = u.calls[Len(u.calls)],
                              !.isLoading = FALSE])

(* The click handler is entered: setIsLoading(true), and signInWithPopup   *)
(* is awaited. The button is disabled while isLoading.                     *)
handleGoogleSignIn(c) ==
    /\ ui[c].at \in {"idle", "end"}
    /\ pc[c] \in {"idle", "done"}
    /\ UIGoto(c, [UIBlank EXCEPT !.flow = "google", !.isLoading = TRUE,
                                 !.cookie0 = cookieStore[c]], "popup")
    /\ UNCHANGED <<users, cookieStore, clock, pc, req, nreq, accounts>>

(* await signInWithPopup(auth, provider): the person signs in with the     *)
(* account of their email, registered now if it was not, or the popup ends *)
(* with an error                                                           *)
SignInWithPopup(c) ==
    /\ ui[c].at = "popup"
    /\ UNCHANGED <<users, cookieStore, clock, pc, req, nreq>>
    /\ LET email == Profile(c).email
           u == UICalled(ui[c], "signInWithPopup")
       IN \/ /\ email \in DOMAIN accounts
             /\ UNCHANGED accounts
             /\ UIGoto(c, [u EXCEPT !.uid = accounts[email]], "googleGetIdToken")
          \/ /\ email \notin DOMAIN accounts
             /\ \E uid \in Uids \ AccountUids :
                   /\ accounts' = Register(email, uid)
                   /\ UIGoto(c, [u EXCEPT !.uid = uid], "googleGetIdToken")
          \/ /\ UNCHANGED accounts
             /\ \E error \in PopupErrors : GoogleCatch(c, u, error)

(* await user.getIdToken() *)
GoogleGetIdToken(c) ==
    /\ ui[c].at = "googleGetIdToken"
    /\ UNCHANGED <<users, cookieStore, clock, pc, req, nreq, accounts>>
    /\ LET u == UICalled(ui[c], "getIdToken")
       IN \/ UIGoto(c, [u EXCEPT !.idToken = IdTokenOf(u.uid)], "provider")
          \/ GoogleCatch(c, u, FirebaseError("auth/network-request-failed"))

(* await signInOrSignUpWithProvider({uid, email, name, profileURL,         *)
(* idToken}): the server action is called                                  *)
GoogleBackend(c) ==
    /\ ui[c].at = "provider"
    /\ UNCHANGED <<users, cookieStore, clock, accounts>>
    /\ \/ /\ Invoke(c, [Blank EXCEPT !.op = "signInOrSignUpWithProvider",
                                     !.uid = ui[c].uid,
                                     !.name = Profile(c).name,
                                     !.email = Profile(c).email,
                                     !.profileURL = Profile(c).profileURL,
                                     !.idToken = ui[c].idToken,
                                     !.cookie0 = cookieStore[c]], "providerGet")
          /\ UIGoto(c, UICalled(ui[c], "signInOrSignUpWithProvider"), "providerResult")
       \/ /\ UNCHANGED <<pc, req, nreq>>
          /\ GoogleCatch(c, UICalled(ui[c], "signInOrSignUpWithProvider"), TransportError)

(* The action has returned: if (backendResult?.success) toast.success and  *)
(* router.push("/"), else toast.error(...) and setIsLoading(false)         *)
GoogleBackendResult(c) ==
    /\ ui[c].at = "providerResult"
    /\ pc[c] = "done"
    /\ UNCHANGED <<users, cookieStore, clock, pc, req, nreq, accounts>>
    /\ LET result == req[c].result
           u == [ui[c] EXCEPT !.result = result]
       IN IF result.success
          THEN UIEnd(c, [Toast(u, "success", <<"Signed in with Google successfully!">>)
                         EXCEPT !.route = "/"])
          ELSE UIEnd(c, [Toast(u, "error",
                               resultMessage(result, "Google Sign-In failed on server."))
                         EXCEPT !.isLoading = FALSE])

(* A caller that is not a page of the application calls the provider       *)
(* action with a uid and a token of its choosing                           *)
DirectProviderCall(c) ==
    /\ ui[c].at \in {"idle", "end"}
    /\ signInOrSignUpWithProvider(c)

(* The browsers whose pages are exercised: one person, one submission at a *)
(* time (the submit button and the Google button are disabled while a      *)
(* submission is in progress)                                              *)
Pages == {"c1"}

(* The pages and the server actions they call *)
NextUI ==
    \/ \E c \in Pages : onSubmit(c)
    \/ \E c \in Pages : CreateUserWithEmailAndPassword(c)
    \/ \E c \in Pages : FormSignUp(c)
    \/ \E c \in Pages : FormSignUpResult(c)
    \/ \E c \in Pages : SignInWithEmailAndPassword(c)
    \/ \E c \in Pages : FormGetIdToken(c)
    \/ \E c \in Pages : FormSignIn(c)
    \/ \E c \in Pages : FormSignInResult(c)
    \/ \E c \in Pages : handleGoogleSignIn(c)
    \/ \E c \in Pages : SignInWithPopup(c)
    \/ \E c \in Pages : GoogleGetIdToken(c)
    \/ \E c \in Pages : GoogleBackend(c)
    \/ \E c \in Pages : GoogleBackendResult(c)
    \/ \E c \in Pages : DirectProviderCall(c)
    \/ \E c \in Pages : SessionCookieBody(c)
    \/ \E c \in Pages : SignUpGet(c)
    \/ \E c \in Pages : SignUpSet(c)
    \/ \E c \in Pages : VerifyIdToken(c)
    \/ \E c \in Pages : SignInUpdate(c)
    \/ \E c \in Pages : ProviderGet(c)
    \/ \E c \in Pages : ProviderSet(c)
    \/ \E c \in Pages : ProviderUpdate(c)

SpecUI == Init /\ [][NextUI]_vars

----------------------------------------------------------------------------
(* C12: in a sign-up submission, the signUp action is called only once     *)
(* createUserWithEmailAndPassword has registered the account, and with the *)
(* uid of that account; when account creation fails the submission ends    *)
(* in that step with one error toast ("This email is already registered.   *)
(* Please sign in." for auth/email-already-in-use), without calling signUp *)
(* and without any request to the server; when signUp reports that the     *)
(* record exists the toast is its account-exists message and the account   *)
(* stays registered.                                                       *)
C12_SignUpFlow ==
    [][\A c \in Pages :
          LET u == ui'[c]
              email == Profile(c).email
          IN u.flow = "sign-up" =>
                /\ "signUp" \in Range(u.calls) =>
                       /\ u.calls = <<"createUserWithEmailAndPassword", "signUp">>
                       /\ email \in DOMAIN accounts'
                       /\ accounts'[email] = u.uid
                /\ u.at = "signUpResult" =>
                       /\ req'[c].op = "signUp"
                       /\ req'[c].uid = u.uid
                /\ u.failed = "createUserWithEmailAndPassword" =>
                       /\ u.at = "end"
                       /\ u.calls = <<"createUserWithEmailAndPassword">>
                       /\ u.toasts = <<[kind |-> "error", text |-> errorMessage(u.error)]>>
                       /\ u.error.code = "auth/email-already-in-use" =>
                              u.toasts[1].text =
                                  <<"This email is already registered. Please sign in.">>
                       /\ u.route = ""
                       /\ ui[c].at = "createUser" =>
                              UNCHANGED <<users, cookieStore, pc, req, nreq, accounts>>
                /\ (u.at = "end" /\ u.result = Failure(AccountExists)) =>
                       /\ u.toasts = <<[kind |-> "error", text |-> <<AccountExists>>]>>
                       /\ u.calls = <<"createUserWithEmailAndPassword", "signUp">>
                       /\ email \in DOMAIN accounts'
                       /\ accounts'[email] = u.uid
                       /\ u.route = ""
                       /\ ui[c].at = "signUpResult" => UNCHANGED accounts]_vars

(* A sign-up submission registered the account, called signUp, was told    *)
(* that the record exists and showed that message; the account is there    *)
C12_Witness ==
    \E c \in Pages :
        /\ ui[c].flow = "sign-up" /\ ui[c].at = "end"
        /\ ui[c].result = Failure(AccountExists)
        /\ ui[c].toasts = <<[kind |-> "error", text |-> <<AccountExists>>]>>
        /\ Profile(c).email \in DOMAIN accounts
        /\ req[c].op = "signUp" /\ req[c].calls = <<"users.get">>

----------------------------------------------------------------------------
(* C13: when signInWithPopup ends with auth/popup-closed-by-user the       *)
(* Google submission ends in that step with no toast, no call of a server  *)
(* action, no change of the cookie store, and isLoading false; a           *)
(* submission that fails in any other way (another error thrown, or the    *)
(* action returning without success) ends with exactly one toast, an error *)
(* toast, and isLoading false.                                             *)
C13_PopupClosedIsSilent ==
    [][\A c \in Pages :
          LET u == ui'[c]
          IN (u.flow = "google" /\ u.at = "end") =>
                /\ u.error.code = "auth/popup-closed-by-user" =>
                       /\ u.toasts = <<>>
                       /\ u.calls = <<"signInWithPopup">>
                       /\ ~u.isLoading
                       /\ u.route = ""
                       /\ ui[c].at = "popup" =>
                              UNCHANGED <<users, cookieStore, pc, req, nreq, accounts>>
                /\ (\/ u.failed # "" /\ u.error.code # "auth/popup-closed-by-user"
                    \/ u.result.kind = "result" /\ ~u.result.success) =>
                       /\ Len(u.toasts) = 1
                       /\ u.toasts[1].kind = "error"
                       /\ ~u.isLoading
                       /\ u.route = ""]_vars

(* The popup was closed by the user on a page whose browser already holds  *)
(* a session cookie; nothing is shown and the button is enabled again      *)
C13_Witness ==
    \E c \in Pages :
        /\ ui[c].flow = "google" /\ ui[c].at = "end"
        /\ ui[c].error \in PopupClosed
        /\ ui[c].toasts = <<>>
        /\ ~ui[c].isLoading
        /\ ui[c].cookie0 # <<>>
        /\ cookieStore[c] = ui[c].cookie0

----------------------------------------------------------------------------
(* The fixed message of each error code the form knows *)
KnownCodes ==
    {"auth/email-already-in-use", "auth/invalid-email", "auth/weak-password",
     "auth/user-not-found", "auth/wrong-password", "auth/invalid-credential"}

FixedMessage(code) ==
    CASE code = "auth/email-already-in-use" ->
             <<"This email is already registered. Please sign in.">>
      [] code = "auth/invalid-email" -> <<"Please enter a valid email address.">>
      [] code = "auth/weak-password" ->
             <<"Password is too weak. Please use at least 6 characters.">>
      [] OTHER -> <<"Invalid email or password.">>

(* A form submission ended in the catch with an error that has a code *)
CaughtWithCode(c) ==
    /\ ui[c].flow \in {"sign-up", "sign-in"}
    /\ ui[c].at = "end"
    /\ ui[c].error.code # ""

(* C14, as stated: the toast for a caught error with a known code is that  *)
(* code's fixed message whatever the error's message says, and the toast   *)
(* for any other code is "Authentication failed: ..." with the raw error   *)
(* code in it.                                                             *)
C14_UnknownCodeShown ==
    \A c \in Pages :
        CaughtWithCode(c) =>
            LET error == ui[c].error
                text == ui[c].toasts[1].text
            IN /\ Len(ui[c].toasts) = 1
               /\ ui[c].toasts[1].kind = "error"
               /\ error.code \in KnownCodes => text = FixedMessage(error.code)
               /\ error.code \notin KnownCodes =>
                      /\ text[1] = "Authentication failed: "
                      /\ error.code \in Range(text)

(* C14, amended: the toast for a caught error with a known code is that    *)
(* code's fixed message whatever the error's message says; the toast for   *)
(* any other code is "Authentication failed: " followed by the error's     *)
(* message, and by the raw error code only when the error has no message.  *)
C14_UnknownCodeOrMessageShown ==
    \A c \in Pages :
        CaughtWithCode(c) =>
            LET error == ui[c].error
                text == ui[c].toasts[1].text
            IN /\ Len(ui[c].toasts) = 1
               /\ ui[c].toasts[1].kind = "error"
               /\ error.code \in KnownCodes => text = FixedMessage(error.code)
               /\ error.code \notin KnownCodes =>
                      text = <<"Authentication failed: ">> \o
                                 (IF error.message # <<>> THEN error.message
                                  ELSE <<error.code>>)

(* Errors with unrecognized codes were caught: one whose message does not  *)
(* mention the code, so the toast does not either                          *)
C14_Witness ==
    \E c \in Pages :
        /\ CaughtWithCode(c)
        /\ ui[c].error = PlainError("auth/internal-error", "Something went wrong.")
        /\ ui[c].toasts[1].text = <<"Authentication failed: ", "Something went wrong.">>

====
